---- MODULE Spec2Model ----
(***************************************************************************)
(* Antora support of the AsciiDoc extension: the opt-in gate of            *)
(* AntoraSupportManager, the antora.yml locator getAntoraConfig, and the   *)
(* on-demand chain parseAntoraConfig / getAttributes / getContentCatalog / *)
(* getSrc.                                                                 *)
(*                                                                         *)
(* Paths are sequences of tokens.  The token "/" is the separator; every   *)
(* other token is a non-empty run of characters without a separator, and   *)
(* adjacent tokens concatenate ("modules" followed by "a" is the segment   *)
(* "modulesa").  No token is a prefix of another, so startsWith, slice and *)
(* the regular expression of getAntoraConfig act on token sequences        *)
(* exactly as they act on the strings.  POSIX paths: Uri.path = Uri.fsPath.*)
(***************************************************************************)
EXTENDS Naturals, Sequences, FiniteSets

VARIABLES
  antoraSupportSetting,   \* workspaceState 'antoraSupportSetting': "undefined" | "true"
  enableAntoraSupport,    \* setting 'antora.enableAntoraSupport': "undefined" | "true" | "false"
  session,                \* number of the current extension-host session
  manager,                \* "none" | "constructed": the session's AntoraSupportManager
  isEnableAntoraSupportSettingDefined,  \* what the constructor read on line 22 ("unread" before)
  listener,               \* onDidOpenAsciiDocFileAskAntoraSupport is subscribed
  opened,                 \* document-open events delivered in this session
  handlers,               \* the invocations of the open-document handler, by event number
  promptsShown,           \* calls of showInformationMessage by this manager
  activations,            \* calls of activate() by this manager
  settingWrites,          \* calls of workspaceConfiguration.update over the workspace's life
  lastCall,               \* the last call of the on-demand chain and its outcome
  textDocumentUri,        \* locator study: the document path
  antoraConfigs,          \* locator study: the search result of findFiles
  located                 \* locator study: what getAntoraConfig returned

vars == << antoraSupportSetting, enableAntoraSupport, session, manager,
           isEnableAntoraSupportSettingDefined, listener,
           opened, handlers, promptsShown, activations, settingWrites, lastCall,
           textDocumentUri, antoraConfigs, located >>

gateVars == << antoraSupportSetting, enableAntoraSupport, session, manager,
               isEnableAntoraSupportSettingDefined, listener,
               opened, handlers, promptsShown, activations, settingWrites >>

locatorVars == << textDocumentUri, antoraConfigs, located >>

\* ---------------------------------------------------------------- bounds

MaxSessions == 2
MaxOpens == 2
MaxPathLen == 9
MaxConfigs == 2

\* ---------------------------------------------------------------- paths

Undefined == "undefined"

\* undefined where a Uri (a path) is expected: no path is empty
NoUri == << >>

\* locator study: getAntoraConfig has not returned yet
Unset == << "unset" >>

Sep == "/"

StartsWith(s, prefix) ==
  /\ Len(prefix) <= Len(s)
  /\ SubSeq(s, 1, Len(prefix)) = prefix

Slice(s, n) == SubSeq(s, n + 1, Len(s))

\* index of the last separator of p, 0 when there is none
RECURSIVE LastSep(_, _)
LastSep(p, i) ==
  IF i = 0 THEN 0
  ELSE IF p[i] = Sep THEN i ELSE LastSep(p, i - 1)

\* path.dirname of a normalised path
Dirname(p) ==
  LET i == LastSep(p, Len(p))
  IN  IF i = 0 THEN << "." >>
      ELSE IF i = 1 THEN << Sep >>
      ELSE SubSeq(p, 1, i - 1)

\* path.join(dir, name) for a normalised dir: the separators are not doubled
Join(dir, name) ==
  IF Len(dir) > 0 /\ dir[Len(dir)] = Sep
  THEN dir \o << name >>
  ELSE dir \o << Sep, name >>

\* first index >= i of s holding a separator, Len(s) + 1 when there is none
RECURSIVE SkipSegment(_, _)
SkipSegment(s, i) ==
  IF i > Len(s) THEN i
  ELSE IF s[i] = Sep THEN i ELSE SkipSegment(s, i + 1)

\* the expression with [^/]* for [^/]+: an empty module segment is let through
MatchModulePagesAnySegment(s) ==
  /\ Len(s) >= 1
  /\ s[1] = Sep
  /\ LET j == SkipSegment(s, 2)
     IN  /\ j + 2 <= Len(s)
         /\ s[j] = Sep
         /\ s[j + 1] = "pages"
         /\ s[j + 2] = Sep

\* s.match(/^\/[^/]+\/pages\/.*/)
MatchModulePages(s) ==
  /\ Len(s) >= 1
  /\ s[1] = Sep
  /\ LET j == SkipSegment(s, 2)
     IN  /\ j > 2
         /\ j + 2 <= Len(s)
         /\ s[j] = Sep
         /\ s[j + 1] = "pages"
         /\ s[j + 2] = Sep

\* the test of one candidate in the loop of getAntoraConfig
IsApplicable(antoraConfig, pathToAsciidocFile) ==
  LET modulesPath == Join(Dirname(antoraConfig), "modules")
  IN  /\ StartsWith(pathToAsciidocFile, modulesPath)
      /\ MatchModulePages(Slice(pathToAsciidocFile, Len(modulesPath)))

RECURSIVE FirstApplicable(_, _, _)
FirstApplicable(configs, pathToAsciidocFile, i) ==
  IF i > Len(configs) THEN NoUri
  ELSE IF IsApplicable(configs[i], pathToAsciidocFile) THEN configs[i]
  ELSE FirstApplicable(configs, pathToAsciidocFile, i + 1)

getAntoraConfig(pathToAsciidocFile, configs) ==
  FirstApplicable(configs, pathToAsciidocFile, 1)

antoraConfigExists(pathToAsciidocFile, configs) ==
  getAntoraConfig(pathToAsciidocFile, configs) # NoUri

\* ---------------------------------------------------------------- workspace

\* the antora.yml files of the workspace, as findFiles returns them
WorkspaceConfigs == << << "/", "docs", "/", "antora.yml" >> >>

IndexPage == << "/", "docs", "/", "modules", "/", "ROOT", "/", "pages", "/", "index.adoc" >>
GuidePage == << "/", "docs", "/", "modules", "/", "guide", "/", "pages", "/", "intro.adoc" >>
Readme == << "/", "README.adoc" >>

Docs == { IndexPage, GuidePage, Readme }

\* ---------------------------------------------------------------- opt-in gate

Answers == { "Yes", "No, thanks", Undefined }

Events == 1..MaxOpens

Idle == [ pc |-> "idle", doc |-> << >>, answer |-> Undefined ]

\* a two-valued reading of the answer: a dismissal is stored as a refusal
EnableOfTwoValued(answer) ==
  IF answer = "Yes" THEN "true" ELSE "false"

\* line 40: the enable value of an answer
EnableOf(answer) ==
  IF answer = "Yes" THEN "true"
  ELSE IF answer = "No, thanks" THEN "false" ELSE Undefined

GateInit ==
  /\ antoraSupportSetting = Undefined
  /\ enableAntoraSupport \in { Undefined, "true", "false" }
  /\ session = 1
  /\ manager = "none"
  /\ isEnableAntoraSupportSettingDefined = "unread"
  /\ listener = FALSE
  /\ opened = 0
  /\ handlers = [ e \in Events |-> Idle ]
  /\ promptsShown = 0
  /\ activations = 0
  /\ settingWrites = 0

NoCall == [ fn |-> "none", doc |-> << >>, input |-> "none", located |-> FALSE,
            pipeline |-> FALSE, raised |-> FALSE, value |-> "none" ]

Init ==
  /\ GateInit
  /\ lastCall = NoCall
  /\ textDocumentUri = << >>
  /\ antoraConfigs = << >>
  /\ located = Unset

\* a constructor that subscribes the listener whatever the flag holds
ConstructSubscribing ==
  /\ manager = "none"
  /\ lastCall = NoCall
  /\ manager' = "constructed"
  /\ isEnableAntoraSupportSettingDefined' = antoraSupportSetting
  /\ activations' = IF antoraSupportSetting = "true" /\ enableAntoraSupport = "true"
                    THEN activations + 1 ELSE activations
  /\ listener' = TRUE
  /\ UNCHANGED << antoraSupportSetting, enableAntoraSupport, session, opened, handlers,
                  promptsShown, settingWrites, lastCall >>
  /\ UNCHANGED locatorVars

\* new AntoraSupportManager(context)
Construct ==
  /\ manager = "none"
  /\ lastCall = NoCall
  /\ manager' = "constructed"
  /\ isEnableAntoraSupportSettingDefined' = antoraSupportSetting
  /\ IF antoraSupportSetting = "true"
     THEN /\ activations' = IF enableAntoraSupport = "true" THEN activations + 1 ELSE activations
          /\ listener' = FALSE
     ELSE IF antoraSupportSetting = Undefined
     THEN /\ listener' = TRUE
          /\ UNCHANGED activations
     ELSE UNCHANGED << listener, activations >>
  /\ UNCHANGED << antoraSupportSetting, enableAntoraSupport, session, opened, handlers,
                  promptsShown, settingWrites, lastCall >>
  /\ UNCHANGED locatorVars

\* the host delivers onDidOpenTextDocument; a subscribed listener starts the handler,
\* which runs to its first await (findFiles in getAntoraConfig)
OpenTextDocument(doc) ==
  /\ manager = "constructed"
  /\ opened < MaxOpens
  /\ lastCall = NoCall
  /\ opened' = opened + 1
  /\ handlers' = IF listener
                 THEN [ handlers EXCEPT ![opened + 1] = [ pc |-> "findFiles", doc |-> doc, answer |-> Undefined ] ]
                 ELSE handlers
  /\ UNCHANGED << antoraSupportSetting, enableAntoraSupport, session, manager,
                  isEnableAntoraSupportSettingDefined, listener,
                  promptsShown, activations, settingWrites, lastCall >>
  /\ UNCHANGED locatorVars

\* findFiles resolves: line 31, and the call of showInformationMessage when it holds
\* (textDocument is not read after line 31)
ConfigLookup(e) ==
  /\ handlers[e].pc = "findFiles"
  /\ lastCall = NoCall
  /\ IF antoraConfigExists(handlers[e].doc, WorkspaceConfigs)
     THEN /\ handlers' = [ handlers EXCEPT ![e].pc = "prompt", ![e].doc = << >> ]
          /\ promptsShown' = promptsShown + 1
     ELSE /\ handlers' = [ handlers EXCEPT ![e].pc = "done", ![e].doc = << >> ]
          /\ UNCHANGED promptsShown
  /\ UNCHANGED << antoraSupportSetting, enableAntoraSupport, session, manager,
                  isEnableAntoraSupportSettingDefined, listener,
                  opened, activations, settingWrites, lastCall >>
  /\ UNCHANGED locatorVars

\* the user answers or dismisses the prompt: line 39 runs, to its await
AnswerPrompt(e, answer) ==
  /\ handlers[e].pc = "prompt"
  /\ lastCall = NoCall
  /\ handlers' = [ handlers EXCEPT ![e].pc = "stateUpdated", ![e].answer = answer ]
  /\ antoraSupportSetting' = "true"
  /\ UNCHANGED << enableAntoraSupport, session, manager,
                  isEnableAntoraSupportSettingDefined, listener, opened,
                  promptsShown, activations, settingWrites, lastCall >>
  /\ UNCHANGED locatorVars

\* workspaceState.update resolved: lines 40-41 run, to the await of the configuration update
UpdateConfiguration(e) ==
  /\ handlers[e].pc = "stateUpdated"
  /\ lastCall = NoCall
  /\ enableAntoraSupport' = EnableOf(handlers[e].answer)
  /\ settingWrites' = settingWrites + 1
  /\ handlers' = [ handlers EXCEPT ![e].pc = "configurationUpdated" ]
  /\ UNCHANGED << antoraSupportSetting, session, manager,
                  isEnableAntoraSupportSettingDefined, listener, opened,
                  promptsShown, activations, lastCall >>
  /\ UNCHANGED locatorVars

\* the configuration update resolved: lines 42-46
FinishHandler(e) ==
  /\ handlers[e].pc = "configurationUpdated"
  /\ lastCall = NoCall
  /\ activations' = IF EnableOf(handlers[e].answer) = "true" THEN activations + 1 ELSE activations
  /\ listener' = FALSE
  /\ handlers' = [ handlers EXCEPT ![e].pc = "done" ]
  /\ UNCHANGED << antoraSupportSetting, enableAntoraSupport, session, manager,
                  isEnableAntoraSupportSettingDefined, opened,
                  promptsShown, settingWrites, lastCall >>
  /\ UNCHANGED locatorVars

\* the window is closed or reloaded: the extension host ends with whatever its handlers
\* had reached, and the next session constructs a new manager over the persisted state
EndSession ==
  /\ manager = "constructed"
  /\ session < MaxSessions
  /\ session' = session + 1
  /\ manager' = "none"
  /\ isEnableAntoraSupportSettingDefined' = "unread"
  /\ listener' = FALSE
  /\ opened' = 0
  /\ handlers' = [ e \in Events |-> Idle ]
  /\ promptsShown' = 0
  /\ activations' = 0
  /\ lastCall' = NoCall
  /\ UNCHANGED << antoraSupportSetting, enableAntoraSupport, settingWrites >>
  /\ UNCHANGED locatorVars

\* ---------------------------------------------------------------- on-demand chain

\* documents the chain is asked about
ChainDocs == { IndexPage, Readme }

\* what antora.yml holds: a component with asciidoc.attributes, a component without
\* the asciidoc key, or text that yaml.load rejects
FileContents == { "full", "noAsciidoc", "unparsable" }

\* the catalog handed to getSrc: none, one holding the document, one that does not
Catalogs == { Undefined, "hasEntry", "noEntry" }

\* what the aggregate / classify pipeline does
PipelineOutcomes == { "catalog", "throws" }

\* a JavaScript object: its identity and its own keys
NewObject(ref, keys) == [ ref |-> ref, keys |-> keys ]

\* a !== b on objects compares identities
StrictNotEqual(a, b) == a.ref # b.ref

\* yaml.load(fs.readFileSync(path)): the parsed document, or a throw
YamlKeys(content) ==
  IF content = "full" THEN { "name", "version", "asciidoc" } ELSE { "name", "version" }

parseAntoraConfig(path, configs, content) ==
  LET antoraConfigUri == getAntoraConfig(path, configs)
  IN  IF antoraConfigUri # NoUri
      THEN IF content = "unparsable"
           THEN NewObject(1, { })
           ELSE NewObject(1, YamlKeys(content))
      ELSE NewObject(1, { })

\* [raised, value] of getAttributes: doc.asciidoc.attributes throws a TypeError when
\* doc has no asciidoc key
getAttributes(path, configs, content) ==
  LET doc == parseAntoraConfig(path, configs, content)
  IN  IF StrictNotEqual(doc, NewObject(2, { }))
      THEN IF "asciidoc" \in doc.keys
           THEN [ raised |-> FALSE, value |-> "attributes" ]
           ELSE [ raised |-> TRUE, value |-> "TypeError" ]
      ELSE [ raised |-> FALSE, value |-> "empty" ]

\* [raised, value] of getSrc: getByPath of a catalog without the file yields no file,
\* file.src throws and the catch returns {}
getSrc(path, configs, content, contentCatalog) ==
  LET antoraConfig == getAntoraConfig(path, configs)
      doc == parseAntoraConfig(path, configs, content)
  IN  IF antoraConfig # NoUri
      THEN IF StrictNotEqual(doc, NewObject(2, { })) /\ contentCatalog # Undefined
           THEN IF contentCatalog = "hasEntry"
                THEN [ raised |-> FALSE, value |-> "src" ]
                ELSE [ raised |-> FALSE, value |-> "empty" ]
           ELSE [ raised |-> FALSE, value |-> "empty" ]
      ELSE [ raised |-> FALSE, value |-> "empty" ]

\* a check of the flag alone
getActiveAntoraConfigFlagOnly(path, configs, flag, setting) ==
  IF flag = "true" THEN getAntoraConfig(path, configs) ELSE NoUri

getActiveAntoraConfig(path, configs, flag, setting) ==
  IF flag = "true"
  THEN IF setting = "true" THEN getAntoraConfig(path, configs) ELSE NoUri
  ELSE NoUri

\* the playbook, named by its content source root; NoUri for no playbook
createPlaybook(path, configs, flag, setting) ==
  LET activeAntoraConfig == getActiveAntoraConfig(path, configs, flag, setting)
  IN  IF activeAntoraConfig = NoUri THEN NoUri ELSE Dirname(activeAntoraConfig)

\* [pipeline, raised, value] of getContentCatalog
getContentCatalog(path, configs, flag, setting, outcome) ==
  LET playbook == createPlaybook(path, configs, flag, setting)
  IN  IF playbook # NoUri
      THEN IF outcome = "throws"
           THEN [ pipeline |-> TRUE, raised |-> TRUE, value |-> "Error" ]
           ELSE [ pipeline |-> TRUE, raised |-> FALSE, value |-> "catalog" ]
      ELSE [ pipeline |-> FALSE, raised |-> FALSE, value |-> Undefined ]

ChainIdle == manager = "constructed" /\ lastCall = NoCall

CallParseAntoraConfig(doc, content) ==
  /\ ChainIdle
  /\ LET r == parseAntoraConfig(doc, WorkspaceConfigs, content)
     IN  lastCall' = [ fn |-> "parseAntoraConfig", doc |-> doc, input |-> content,
                       located |-> antoraConfigExists(doc, WorkspaceConfigs),
                       pipeline |-> FALSE, raised |-> FALSE,
                       value |-> IF r.keys = { } THEN "empty" ELSE "document" ]
  /\ UNCHANGED gateVars
  /\ UNCHANGED locatorVars

CallGetAttributes(doc, content) ==
  /\ ChainIdle
  /\ LET r == getAttributes(doc, WorkspaceConfigs, content)
     IN  lastCall' = [ fn |-> "getAttributes", doc |-> doc, input |-> content,
                       located |-> antoraConfigExists(doc, WorkspaceConfigs),
                       pipeline |-> FALSE, raised |-> r.raised, value |-> r.value ]
  /\ UNCHANGED gateVars
  /\ UNCHANGED locatorVars

CallGetSrc(doc, content, contentCatalog) ==
  /\ ChainIdle
  /\ LET r == getSrc(doc, WorkspaceConfigs, content, contentCatalog)
     IN  lastCall' = [ fn |-> "getSrc", doc |-> doc, input |-> contentCatalog,
                       located |-> antoraConfigExists(doc, WorkspaceConfigs),
                       pipeline |-> FALSE, raised |-> r.raised, value |-> r.value ]
  /\ UNCHANGED gateVars
  /\ UNCHANGED locatorVars

CallGetContentCatalog(doc, outcome) ==
  /\ ChainIdle
  /\ LET r == getContentCatalog(doc, WorkspaceConfigs, antoraSupportSetting,
                                enableAntoraSupport, outcome)
     IN  lastCall' = [ fn |-> "getContentCatalog", doc |-> doc, input |-> outcome,
                       located |-> antoraConfigExists(doc, WorkspaceConfigs),
                       pipeline |-> r.pipeline, raised |-> r.raised, value |-> r.value ]
  /\ UNCHANGED gateVars
  /\ UNCHANGED locatorVars

\* the caller has taken the result
ReturnCall ==
  /\ lastCall # NoCall
  /\ lastCall' = NoCall
  /\ UNCHANGED gateVars
  /\ UNCHANGED locatorVars

Next ==
  \/ Construct
  \/ \E doc \in Docs : OpenTextDocument(doc)
  \/ \E e \in Events : ConfigLookup(e)
  \/ \E e \in Events, answer \in Answers : AnswerPrompt(e, answer)
  \/ \E e \in Events : UpdateConfiguration(e)
  \/ \E e \in Events : FinishHandler(e)
  \/ EndSession
  \/ \E doc \in ChainDocs, content \in FileContents : CallParseAntoraConfig(doc, content)
  \/ \E doc \in ChainDocs, content \in FileContents : CallGetAttributes(doc, content)
  \/ \E doc \in ChainDocs, content \in FileContents, contentCatalog \in Catalogs :
        CallGetSrc(doc, content, contentCatalog)
  \/ \E doc \in ChainDocs, outcome \in PipelineOutcomes : CallGetContentCatalog(doc, outcome)
  \/ ReturnCall

Spec == Init /\ [][Next]_vars

\* ---------------------------------------------------------------- locator study

\* the tokens document paths are built from
Tokens == { Sep, "modules", "pages" }

\* antora.yml files a search may return: /antora.yml, /modules/antora.yml, /pages/antora.yml
ConfigFiles ==
  { << Sep, "antora.yml" >>,
    << Sep, "modules", Sep, "antora.yml" >>,
    << Sep, "pages", Sep, "antora.yml" >> }

\* search results: up to MaxConfigs distinct files, in any order
SearchResults ==
  { r \in UNION { [ 1..n -> ConfigFiles ] : n \in 0..MaxConfigs } :
      \A i, j \in DOMAIN r : i # j => r[i] # r[j] }

LocateInit ==
  /\ GateInit
  /\ enableAntoraSupport = Undefined
  /\ lastCall = NoCall
  /\ textDocumentUri = << Sep >>
  /\ antoraConfigs \in SearchResults
  /\ located = Unset

\* the absolute path of the document grows by one token
AppendToken(t) ==
  /\ located = Unset
  /\ Len(textDocumentUri) < MaxPathLen
  /\ textDocumentUri' = Append(textDocumentUri, t)
  /\ UNCHANGED << antoraConfigs, located, lastCall >>
  /\ UNCHANGED gateVars

\* getAntoraConfig(textDocumentUri) over the search result
Locate ==
  /\ located = Unset
  /\ located' = getAntoraConfig(textDocumentUri, antoraConfigs)
  /\ UNCHANGED << textDocumentUri, antoraConfigs, lastCall >>
  /\ UNCHANGED gateVars

LocateNext ==
  \/ \E t \in Tokens : AppendToken(t)
  \/ Locate

SpecLocate == LocateInit /\ [][LocateNext]_vars

\* ---------------------------------------------------------------- claims about the locator

\* the directory root of the configuration file root/antora.yml
RootOf(config) == SubSeq(config, 1, Len(config) - 2)

\* path has the shape root/modules/<nonempty-segment>/pages/<anything>
HasSiteShape(root, path) ==
  LET n == Len(root)
  IN  \E k \in 1..Len(path) :
        /\ k >= n + 4
        /\ k + 3 <= Len(path)
        /\ SubSeq(path, 1, n) = root
        /\ path[n + 1] = Sep
        /\ path[n + 2] = "modules"
        /\ path[n + 3] = Sep
        /\ \A i \in (n + 4)..k : path[i] # Sep
        /\ path[k + 1] = Sep
        /\ path[k + 2] = "pages"
        /\ path[k + 3] = Sep

Accepted(i) == HasSiteShape(RootOf(antoraConfigs[i]), textDocumentUri)

\* C5: getAntoraConfig accepts root/antora.yml iff the document path has the shape
\* root/modules/<nonempty-segment>/pages/<anything>, and returns the first accepted
\* candidate in search-result order, or undefined when none is accepted.
C5_FirstApplicableConfig ==
  located # Unset =>
    IF \E i \in DOMAIN antoraConfigs : Accepted(i)
    THEN \E i \in DOMAIN antoraConfigs :
           /\ located = antoraConfigs[i]
           /\ Accepted(i)
           /\ \A j \in 1..(i - 1) : ~Accepted(j)
    ELSE located = NoUri

\* two candidates of the search result contain the document, and the first is returned
C5_Witness ==
  /\ Len(antoraConfigs) >= 2
  /\ Accepted(1)
  /\ Accepted(2)
  /\ located = antoraConfigs[1]

\* ---------------------------------------------------------------- claims about the gate

\* the persisted opt-in state is "enabled"
Enabled == antoraSupportSetting = "true" /\ enableAntoraSupport = "true"

\* handler e leaves stage `from` in this step of the current session
Leaves(e, from) ==
  /\ handlers[e].pc = from
  /\ handlers'[e].pc # from
  /\ session' = session

\* C1: a manager constructed with the flag unset shows the activation prompt at most
\* once, whatever the interleaving of document-open events and answers.
C1_PromptAtMostOnce == promptsShown <= 1

\* some handler of this session has finished after the answer "Yes"
YesHandled == \E e \in Events : handlers[e].pc = "done" /\ handlers[e].answer = "Yes"

\* C2: once a "Yes" answer has been handled, the opt-in state reads enabled from then
\* on and no later document-open event shows the prompt again in the session.
C2_YesStaysEnabled ==
  /\ [](YesHandled => Enabled)
  /\ [][YesHandled => promptsShown' <= promptsShown]_vars

\* C3: after the gate has persisted a first decision, no later step of the gate
\* changes the flag or the setting again.
C3_DecisionTerminal ==
  [][settingWrites >= 1 =>
       /\ enableAntoraSupport' = enableAntoraSupport
       /\ antoraSupportSetting' = antoraSupportSetting]_vars

\* C7: activate() is called at most once per AntoraSupportManager instance.
C7_ActivatedAtMostOnce == activations <= 1

\* C10: the completion provider is registered only while the persisted opt-in state
\* is enabled.
C10_ProviderOnlyWhenEnabled == activations > 0 => Enabled

\* C8: every answer persists the flag as true, persists the setting as true, false or
\* unset for Yes, No or a dismissal, and unsubscribes the listener; the feature is
\* activated only on Yes; and a manager constructed over the state a dismissal leaves
\* (flag true, setting unset) neither subscribes, nor prompts, nor activates.
C8_AnswerPersisted ==
  /\ [][\A e \in Events :
          /\ Leaves(e, "prompt") => antoraSupportSetting' = "true"
          /\ Leaves(e, "stateUpdated") =>
               enableAntoraSupport' =
                 CASE handlers[e].answer = "Yes" -> "true"
                   [] handlers[e].answer = "No, thanks" -> "false"
                   [] OTHER -> Undefined
          /\ Leaves(e, "configurationUpdated") =>
               /\ listener' = FALSE
               /\ activations' =
                    IF handlers[e].answer = "Yes" THEN activations + 1 ELSE activations]_vars
  /\ [][(activations' > activations /\ manager = "constructed") =>
          \E e \in Events : Leaves(e, "configurationUpdated") /\ handlers[e].answer = "Yes"]_vars
  /\ []((manager = "constructed" /\ isEnableAntoraSupportSettingDefined = "true"
           /\ enableAntoraSupport = Undefined) =>
          (~listener /\ promptsShown = 0 /\ activations = 0))

\* a second session runs over the state a dismissal left, and a document of the site
\* has been opened in it
C8_Witness ==
  /\ session = 2
  /\ manager = "constructed"
  /\ isEnableAntoraSupportSettingDefined = "true"
  /\ enableAntoraSupport = Undefined
  /\ settingWrites = 1
  /\ opened >= 1
  /\ promptsShown = 0

\* C9: a manager constructed over the enabled state activates during construction,
\* subscribes no listener and shows no prompt for any document opened afterwards.
C9_EnabledAtConstruction ==
  (manager = "constructed" /\ isEnableAntoraSupportSettingDefined = "true"
     /\ enableAntoraSupport = "true") =>
    /\ activations = 1
    /\ ~listener
    /\ promptsShown = 0
    /\ \A e \in Events : handlers[e] = Idle

\* a session constructed over the enabled state in which documents were opened
C9_Witness ==
  /\ manager = "constructed"
  /\ isEnableAntoraSupportSettingDefined = "true"
  /\ enableAntoraSupport = "true"
  /\ opened >= 2
  /\ activations = 1

\* ---------------------------------------------------------------- claims about the chain

\* C4: getContentCatalog returns undefined, without raising and without invoking the
\* aggregate / classify pipeline, whenever the flag or the setting is not true, even
\* for a document with an applicable antora.yml; the pipeline is invoked only when
\* the flag is true, the setting is true and a configuration file is located.
C4_CatalogOnlyWhenActive ==
  lastCall.fn = "getContentCatalog" =>
    /\ ~Enabled => (lastCall.value = Undefined /\ ~lastCall.raised /\ ~lastCall.pipeline)
    /\ lastCall.pipeline => (Enabled /\ lastCall.located)
    /\ ~lastCall.pipeline => (lastCall.value = Undefined /\ ~lastCall.raised)

\* the user refused, and the catalog is asked for a page of the site
C4_Witness ==
  /\ lastCall.fn = "getContentCatalog"
  /\ lastCall.located
  /\ antoraSupportSetting = "true"
  /\ enableAntoraSupport = "false"
  /\ lastCall.value = Undefined

\* C6: for a document with no applicable antora.yml, parseAntoraConfig, getAttributes,
\* getSrc and getContentCatalog each complete with an empty or absent value and none
\* of them raises.
C6_AbsentConfigNeverRaises ==
  (lastCall.fn # "none" /\ ~lastCall.located) =>
    (~lastCall.raised /\ lastCall.value \in { "empty", Undefined })


====
